---- MODULE Spec2Model ----
(***************************************************************************)
(* A model of jiracli/cli.go: the re-authentication post-callback that     *)
(* Register installs on the HTTP client, CommonOptions.editFile with its   *)
(* chunked file comparison, and EditLoop.                                  *)
(*                                                                         *)
(* Four state machines share the module, each with its own variables and   *)
(* its own specification:                                                  *)
(*   SpecAuth  the post-callback (cli.go 95-114)                           *)
(*   SpecDiff  the comparison loop of editFile (cli.go 233-263)            *)
(*   Spec      EditLoop and editFile (cli.go 202-367)                      *)
(*   SpecFix   the fix-up of the parsed file (cli.go 331-340)              *)
(***************************************************************************)
EXTENDS Integers, Sequences, FiniteSets, TLC

VARIABLES
    \* ---- the post-callback of Register -------------------------------
    quiet,      \* globals.Quiet.Value
    apc,        \* where the single thread of control is
    stack,      \* one frame per active invocation of the post-callback
    reqNo,      \* how many times the request has been sent through o.Do
    ret,        \* what the innermost finished o.Do / callback returns
    result,     \* what the caller of the original o.Do(req) received
    firstUser,  \* X-Ausername of the response to the original request
    quiet0,     \* history: globals.Quiet.Value before the request
    logins,     \* history: number of app.Parse({"login"}) calls
    replays,    \* history: number of o.Do(req) calls made by the callback
    unauth,     \* history: number of unauthenticated responses received
    \* ---- the comparison of editFile ----------------------------------
    dOld,       \* bytes of the .orig backup
    dNew,       \* bytes of the edited file
    dDone,      \* whether the comparison has returned
    dChanged,   \* the value it returned for changes
    \* ---- EditLoop and editFile ---------------------------------------
    pc,         \* where EditLoop is
    skipEditing,\* opts.SkipEditing.Value
    tmpFile,    \* contents of the file tmpTemplate wrote (an index of Docs), 0: no file
    origFile,   \* contents of the .orig backup, 0: no such file
    output,     \* the struct output points to
    dup,        \* the struct dup points to
    heap,       \* the maps that fields of output and dup refer to
    fixed,      \* the tree that fixedYAML encodes
    yamlTypes,  \* yaml.DefaultMapType and yaml.IfaceType
    defers,     \* the arguments of EditLoop's pending deferred calls
    attempts,   \* how many times the loop has continued
    answer,     \* history: the last confirmation and the answer to it
    renders,    \* history: number of tmpTemplate calls
    rendered,   \* history: what tmpTemplate wrote
    prevFile,   \* history: the file before the editor last ran
    submits,    \* history: number of submit() calls
    snapshot,   \* history: the value of *output when EditLoop was called
    yamlTypes0, \* history: the yaml settings when EditLoop was called
    submitFails,\* history: number of submit() calls that returned an error
    populated,  \* history: what this iteration's decoding made of *output
    \* ---- the fix-up of the parsed file (cli.go 331-340) ---------------
    fRaw,       \* raw after yaml.Unmarshal(data, &raw)
    fDone,      \* whether the fix-up has run
    fOnce,      \* raw after the fix-up
    fTwice      \* raw after a second fix-up

authVars == <<quiet, apc, stack, reqNo, ret, result, firstUser, quiet0,
              logins, replays, unauth>>
diffVars == <<dOld, dNew, dDone, dChanged>>
editVars == <<pc, skipEditing, tmpFile, origFile, output, dup, heap, fixed,
              yamlTypes, defers, attempts, answer, renders, rendered,
              prevFile, submits, snapshot, yamlTypes0, submitFails,
              populated>>
fixVars == <<fRaw, fDone, fOnce, fTwice>>
vars == <<authVars, diffVars, editVars, fixVars>>
notAuth == <<diffVars, editVars, fixVars>>
notDiff == <<authVars, editVars, fixVars>>
notEdit == <<authVars, diffVars, fixVars>>
notFix == <<authVars, diffVars, editVars>>

Nil == "nil"

(***************************************************************************)
(* Bounds.                                                                 *)
(***************************************************************************)
\* nested re-entries of the post-callback that the server may provoke
MaxDepth == 3
\* longest file the comparison is run on
MaxFileLen == 4
\* the 1024-byte read buffer of editFile, scaled down
ChunkSize == 2
\* how many times EditLoop may continue
MaxAttempts == 2

(***************************************************************************)
(* The post-callback (cli.go 95-114).                                      *)
(***************************************************************************)
\* the values resp.Header.Get("X-Ausername") can have: "" when absent
Users == {"", "anonymous", "alice"}

NoRet == [kind |-> "none", id |-> 0, user |-> ""]

\* line 98 with the header test broken: only a missing header is caught
IsUnauthenticatedOnlyAbsent(authUser) == authUser = ""

\* line 98: authUser == "" || authUser == "anonymous"
IsUnauthenticated(authUser) == authUser = "" \/ authUser = "anonymous"

\* lines 101-104 with the statements swapped: the argument of the deferred
\* call would be evaluated after the flag was forced
DeferArgAfterForce(q) == TRUE

\* line 103: the argument of the deferred call, evaluated at the defer
DeferArg(q) == q

\* lines 101-102: what the deferred function writes to globals.Quiet.Value
DeferredRestore(frame) == frame.saved

InitAuth ==
    /\ quiet \in BOOLEAN
    /\ quiet0 = quiet
    /\ apc = "idle"
    /\ stack = <<>>
    /\ reqNo = 0
    /\ ret = NoRet
    /\ result = NoRet
    /\ firstUser = Nil
    /\ logins = 0
    /\ replays = 0
    /\ unauth = 0

\* a command's ExecuteFunc sends a request: o.Do(req) (line 145 hands o out)
CallerDo ==
    /\ apc = "idle"
    /\ apc' = "sending"
    /\ reqNo' = 1
    /\ UNCHANGED <<quiet, stack, ret, result, firstUser, quiet0, logins,
                   replays, unauth>>
    /\ UNCHANGED notAuth

\* o.Do fails below the callback: it returns the transport's error
DoFails ==
    /\ apc = "sending"
    /\ ret' = [kind |-> "err", id |-> reqNo, user |-> ""]
    /\ apc' = "returning"
    /\ firstUser' = IF reqNo = 1 THEN "error" ELSE firstUser
    /\ UNCHANGED <<quiet, stack, reqNo, result, quiet0, logins, replays,
                   unauth>>
    /\ UNCHANGED notAuth

\* o.Do got a response and hands it to the post-callback: lines 96-104 for
\* an unauthenticated one, lines 97-98 and 112 for an authenticated one
Receive(user) ==
    /\ apc = "sending"
    /\ (user \in {"", "anonymous"}) => Len(stack) < MaxDepth
    /\ firstUser' = IF reqNo = 1 THEN user ELSE firstUser
    /\ unauth' = IF user \in {"", "anonymous"} THEN unauth + 1 ELSE unauth
    /\ IF IsUnauthenticated(user)
       THEN /\ stack' = Append(stack, [saved |-> DeferArg(quiet),
                                       entry |-> quiet,
                                       loginFailed |-> FALSE,
                                       replayed |-> FALSE])
            /\ quiet' = TRUE
            /\ apc' = "login"
            /\ ret' = ret
       ELSE /\ ret' = [kind |-> "resp", id |-> reqNo, user |-> user]
            /\ apc' = "returning"
            /\ UNCHANGED <<quiet, stack>>
    /\ UNCHANGED <<reqNo, result, quiet0, logins, replays>>
    /\ UNCHANGED notAuth

\* line 107: app.Parse([]string{"login"}); what it returns is discarded
Login(ok) ==
    /\ apc = "login"
    /\ logins' = logins + 1
    /\ stack' = [stack EXCEPT ![Len(stack)].loginFailed = ~ok]
    /\ apc' = "replay"
    /\ UNCHANGED <<quiet, reqNo, ret, result, firstUser, quiet0, replays,
                   unauth>>
    /\ UNCHANGED notAuth

\* line 110: o.Do(req), through the client that carries this callback
Replay ==
    /\ apc = "replay"
    /\ replays' = replays + 1
    /\ reqNo' = reqNo + 1
    /\ stack' = [stack EXCEPT ![Len(stack)].replayed = TRUE]
    /\ apc' = "sending"
    /\ UNCHANGED <<quiet, ret, result, firstUser, quiet0, logins, unauth>>
    /\ UNCHANGED notAuth

\* line 110 returns what o.Do returned; the deferred function of lines
\* 101-103 runs and the enclosing o.Do returns the callback's values
CallbackReturn ==
    /\ apc = "returning"
    /\ stack # <<>>
    /\ quiet' = DeferredRestore(stack[Len(stack)])
    /\ stack' = SubSeq(stack, 1, Len(stack) - 1)
    /\ UNCHANGED <<apc, reqNo, ret, result, firstUser, quiet0, logins,
                   replays, unauth>>
    /\ UNCHANGED notAuth

\* the original o.Do(req) returns to the command
CallerGets ==
    /\ apc = "returning"
    /\ stack = <<>>
    /\ result' = ret
    /\ apc' = "done"
    /\ UNCHANGED <<quiet, stack, reqNo, ret, firstUser, quiet0, logins,
                   replays, unauth>>
    /\ UNCHANGED notAuth

NextAuth ==
    \/ CallerDo
    \/ DoFails
    \/ \E user \in Users : Receive(user)
    \/ \E ok \in BOOLEAN : Login(ok)
    \/ Replay
    \/ CallbackReturn
    \/ CallerGets

(***************************************************************************)
(* Properties of the post-callback, checked under SpecAuth.                *)
(***************************************************************************)
\* what the HTTP layer calls unauthenticated: header absent or "anonymous"
Anonymous(user) == user \in {"", "anonymous"}

\* C1: when the response to the original request is unauthenticated, what
\* the caller receives is the outcome (response or error) of the last
\* replayed request, never the original response and never an
\* unauthenticated response.
InterceptorTransparency ==
    (apc = "done" /\ Anonymous(firstUser)) =>
        /\ result.id = reqNo
        /\ result.id > 1
        /\ result.kind \in {"resp", "err"}
        /\ result.kind = "resp" => ~Anonymous(result.user)

TransparencyWitness ==
    /\ apc = "done"
    /\ firstUser = "anonymous"
    /\ result.kind = "resp"
    /\ result.id = 2

\* C2 as stated: one original request with an unauthenticated response
\* costs exactly one login and one replay, whatever the replay returns.
ExactlyOneLoginOneReplay ==
    (apc = "done" /\ Anonymous(firstUser)) => (logins = 1 /\ replays = 1)

\* C2 as amended: every unauthenticated response costs one login and one
\* replay, so for one original request the logins and the replays both
\* number the unauthenticated responses received: 1 when the replayed
\* response is authenticated or fails, more when it is unauthenticated too.
OneLoginOneReplayPerAnonymousResponse ==
    /\ replays <= logins
    /\ logins <= unauth
    /\ unauth <= logins + 1
    /\ apc \in {"returning", "done"} => (logins = unauth /\ replays = unauth)
    /\ (apc = "done" /\ Anonymous(firstUser) /\ reqNo = 2) =>
           (logins = 1 /\ replays = 1)

OneLoginOneReplayWitness ==
    /\ apc = "done"
    /\ unauth = 2
    /\ logins = 2
    /\ replays = 2

\* C3 as stated: a failed login ends the callback with the login error, and
\* the callback that saw the login fail does not replay the request.
LoginFailureSkipsReplay ==
    /\ \A i \in DOMAIN stack : stack[i].loginFailed => ~stack[i].replayed
    /\ (apc = "returning" /\ stack # <<>> /\ stack[Len(stack)].loginFailed) =>
           ret.kind = "loginerr"

\* C4: the quiet flag is true while login runs; when a callback returns,
\* the flag has the value it had when that callback was entered, whatever
\* happened in between (login failed, the replay failed, the callback was
\* re-entered during the replay); a response that is authenticated, and a
\* request that fails, leave the flag untouched.
QuietSavedAndRestored ==
    /\ [](apc \in {"login", "replay"} => quiet = TRUE)
    /\ [](stack = <<>> => quiet = quiet0)
    /\ [][Len(stack') < Len(stack) => quiet' = stack[Len(stack)].entry]_vars
    /\ [][(apc = "sending" /\ apc' = "returning") => quiet' = quiet]_vars

QuietRestoredWitness ==
    /\ apc = "done"
    /\ quiet0 = FALSE
    /\ quiet = FALSE
    /\ logins = 2
    /\ result.kind = "err"

\* C17 as stated: while a replayed request is in flight, the quiet flag
\* already has the value it had when the callback that replays was entered.
QuietRestoredBeforeReplay ==
    (apc = "sending" /\ stack # <<>>) =>
        quiet = stack[Len(stack)].entry

\* C17 as amended: the flag stays forced to true from the login through
\* the replay, as long as a callback is active, and has its old value back
\* once the outermost callback has returned, after the replay.
QuietRestoredAfterReplay ==
    /\ stack # <<>> => quiet = TRUE
    /\ stack = <<>> => quiet = quiet0

\* the replay is in flight and the flag, false before, is still forced
QuietDuringReplayWitness ==
    /\ apc = "sending"
    /\ Len(stack) = 1
    /\ stack[1].replayed
    /\ stack[1].entry = FALSE
    /\ quiet = TRUE

\* C19: nothing bounds the re-entry: every unauthenticated response, to a
\* replay as to the original request, enters the callback one level deeper
\* with a login and a replay of its own; the caller has a result only after
\* a request that failed or was answered with an authenticated response.
NoRecursionGuard ==
    /\ apc \in {"login", "replay"} => Len(stack) = unauth
    /\ apc = "sending" => (Len(stack) = unauth /\ reqNo = unauth + 1)
    /\ apc = "login" => logins = unauth - 1
    /\ (reqNo > 0 /\ unauth >= reqNo) =>
          (apc \in {"login", "replay"} /\ result = NoRet)
    /\ result # NoRet =>
          /\ unauth = reqNo - 1
          /\ result.id = reqNo
          /\ result.kind = "err" \/ ~Anonymous(result.user)

\* the callback re-entered as often as the server answered unauthenticated
DeepReentryWitness ==
    /\ apc = "login"
    /\ Len(stack) = MaxDepth
    /\ unauth = MaxDepth
    /\ reqNo = MaxDepth

(***************************************************************************)
(* The comparison of editFile (cli.go 233-263).                            *)
(***************************************************************************)
Bytes == {0, 1}

Files == UNION {[1..n -> Bytes] : n \in 0..MaxFileLen}

Min(a, b) == IF a < b THEN a ELSE b

\* os.File.Read into a buffer of ChunkSize bytes at offset pos: the bytes
\* read and whether the error is io.EOF (nothing was left to read)
ReadChunk(f, pos) ==
    IF pos >= Len(f)
    THEN [data |-> <<>>, eof |-> TRUE]
    ELSE [data |-> SubSeq(f, pos + 1, Min(pos + ChunkSize, Len(f))),
          eof |-> FALSE]

\* line 253 with the comparison dropped: only the counts are compared
ChunkDiffersNever(oldChunk, newChunk) == FALSE

\* line 253: bytes.Compare(oldBuf[:oldCount], newBuf[:newCount]) != 0
ChunkDiffers(oldChunk, newChunk) == oldChunk # newChunk

\* lines 247-257: the loop, from the offset both handles have reached
RECURSIVE CompareFrom(_, _, _, _)
CompareFrom(old, new, oldPos, newPos) ==
    LET o == ReadChunk(old, oldPos)
        n == ReadChunk(new, newPos)
    IN  IF Len(o.data) # Len(n.data) THEN TRUE
        ELSE IF ChunkDiffers(o.data, n.data) THEN TRUE
        ELSE IF n.eof THEN FALSE
        ELSE CompareFrom(old, new, oldPos + Len(o.data), newPos + Len(n.data))

\* lines 241-257: the sizes first, then the loop
FilesChanged(old, new) ==
    IF Len(old) # Len(new) THEN TRUE ELSE CompareFrom(old, new, 0, 0)

InitDiff ==
    /\ dOld \in Files
    /\ dNew \in Files
    /\ dDone = FALSE
    /\ dChanged = FALSE

\* editFile from line 233 on, run on one pair of files
DiffRun ==
    /\ ~dDone
    /\ dDone' = TRUE
    /\ dChanged' = FilesChanged(dOld, dNew)
    /\ UNCHANGED <<dOld, dNew>>
    /\ UNCHANGED notDiff

NextDiff == DiffRun

(***************************************************************************)
(* EditLoop (cli.go 265-367) and editFile (cli.go 202-263).                *)
(***************************************************************************)
\* ---- parsed YAML: what yaml.Unmarshal(data, &raw) yields ---------------
Str(x) == [t |-> "str", v |-> x]
List(q) == [t |-> "seq", v |-> q]
Map(f) == [t |-> "map", v |-> [k \in DOMAIN f |-> f[k]]]
EmptyMap == [k \in {} |-> ""]
BadYAML == [t |-> "bad", v |-> ""]

\* the contents the temporary file can have: its bytes, and what the YAML
\* parser makes of them
Docs == <<
    \* a template with fields left blank
    [bytes |-> <<0, 0>>,
     yaml |-> Map([summary |-> Str("a"),
                   fields |-> Map([k1 |-> Str(" ")]),
                   labels |-> List(<<>>)])],
    \* not YAML
    [bytes |-> <<0, 1>>, yaml |-> BadYAML],
    \* a summary and one entry for the map
    [bytes |-> <<1, 0>>,
     yaml |-> Map([summary |-> Str("b"),
                   fields |-> Map([k1 |-> Str("v")])])],
    \* a sequence where the struct has a string, and an entry for the map
    [bytes |-> <<1, 1>>,
     yaml |-> Map([summary |-> List(<<Str("x")>>),
                   fields |-> Map([k2 |-> Str("w")])])],
    \* a summary alone, in a longer file
    [bytes |-> <<1, 0, 1>>,
     yaml |-> Map([summary |-> Str("c")])]
>>

DocIds == DOMAIN Docs

\* ---- yamlFixup (line 339) ----------------------------------------------
BlankStrings == {"", " "}

IsEmptyNode(n) ==
    \/ n.t = "str" /\ n.v \in BlankStrings
    \/ n.t = "seq" /\ n.v = <<>>
    \/ n.t = "map" /\ DOMAIN n.v = {}

\* the parent drops the entries that are empty before their own fix-up
RECURSIVE yamlFixupParentFirst(_)
yamlFixupParentFirst(n) ==
    CASE n.t = "map" ->
           LET keep == {k \in DOMAIN n.v : ~IsEmptyNode(n.v[k])}
           IN  [t |-> "map",
                v |-> [k \in keep |-> yamlFixupParentFirst(n.v[k])]]
      [] n.t = "seq" ->
           [t |-> "seq",
            v |-> [i \in DOMAIN n.v |-> yamlFixupParentFirst(n.v[i])]]
      [] OTHER -> n

\* children first, so that a mapping emptied by the removal of its entries
\* is removed by its parent in turn
RECURSIVE yamlFixup(_)
yamlFixup(n) ==
    CASE n.t = "map" ->
           LET kids == [k \in DOMAIN n.v |-> yamlFixup(n.v[k])]
               keep == {k \in DOMAIN n.v : ~IsEmptyNode(kids[k])}
           IN  [t |-> "map", v |-> [k \in keep |-> kids[k]]]
      [] n.t = "seq" ->
           [t |-> "seq", v |-> [i \in DOMAIN n.v |-> yamlFixup(n.v[i])]]
      [] OTHER -> n

\* line 339 with the call missing
SanitizeSkipped(raw) == raw

\* line 339 calling a fix-up that tests an entry before fixing it up
SanitizeParentFirst(raw) == yamlFixupParentFirst(raw)

\* line 339: yamlFixup(&raw) rewrites raw in place
Sanitize(raw) == yamlFixup(raw)

\* ---- the struct behind output: a string field and a map field ----------
\* A struct value holds the string and a reference to the map (0: nil map);
\* the maps themselves are in heap. Reference 1 is the map the caller
\* passed in, reference 2 a map the decoder made.
Refs == {1, 2}

\* the value of a struct with everything its fields reach
Deep(doc, h) ==
    [summary |-> doc.summary,
     hasFields |-> doc.fields # 0,
     fields |-> IF doc.fields = 0 THEN EmptyMap ELSE h[doc.fields]]

\* copier.Copy(to, from) for two values of one struct type (lines 284 and
\* 319): the struct is assigned, so a map field of `to` then refers to the
\* map that the field of `from` refers to
CopierCopy(from) == from

\* yaml.Unmarshal(fixedYAML, output) on the value of a struct: a field whose
\* node has the wrong kind is reported and skipped and the other fields are
\* still set; a map field is decoded entry by entry into the map the field
\* already holds, and a nil map is made first
UnmarshalInto(d, tree) ==
    IF tree.t # "map" THEN [doc |-> d, err |-> TRUE]
    ELSE
      LET m == tree.v
          hasS == "summary" \in DOMAIN m
          okS == hasS /\ m["summary"].t = "str"
          hasF == "fields" \in DOMAIN m
          okF == hasF /\ m["fields"].t = "map"
          fm == IF okF THEN m["fields"].v ELSE EmptyMap
          good == {k \in DOMAIN fm : fm[k].t = "str"}
          merged == [k \in DOMAIN d.fields \cup good |->
                        IF k \in good THEN fm[k].v ELSE d.fields[k]]
      IN  [doc |-> [summary |-> IF okS THEN m["summary"].v ELSE d.summary,
                    hasFields |-> d.hasFields \/ okF,
                    fields |-> merged],
           err |-> \/ (hasS /\ ~okS)
                   \/ (hasF /\ ~okF)
                   \/ good # DOMAIN fm]

\* the same on the struct output points to and the heap
Unmarshal(doc, h, tree) ==
    LET r == UnmarshalInto(Deep(doc, h), tree)
        ref == IF doc.fields = 0 THEN 2 ELSE doc.fields
    IN  [doc |-> [summary |-> r.doc.summary,
                  fields |-> IF r.doc.hasFields THEN ref ELSE 0],
         heap |-> IF r.doc.hasFields
                  THEN [h EXCEPT ![ref] = r.doc.fields] ELSE h,
         err |-> r.err]

\* lines 271-278: survey.AskOne with Default: true writes the user's answer,
\* or true on an empty answer; when the prompt fails nothing is written and
\* answer keeps its zero value
Answers == {"yes", "no", "empty", "interrupted"}

confirm(a) == a \in {"yes", "empty"}

NoAnswer == <<"none", "none">>

\* the values of yaml.DefaultMapType and yaml.IfaceType
YamlDefault == [mapType |-> "map[interface{}]interface{}",
                iface |-> "interface{}"]
YamlOther == [mapType |-> "map[string]string", iface |-> "string"]
\* lines 315-316
YamlForEditLoop == [mapType |-> "map[string]interface{}",
                    iface |-> "interface{}"]

\* the deferred calls run in the order they were registered
RECURSIVE RunDefersFifo(_, _)
RunDefersFifo(ds, cur) ==
    IF ds = <<>> THEN cur
    ELSE RunDefersFifo(SubSeq(ds, 2, Len(ds)), ds[1])

\* the deferred calls of lines 311-314 run last registered first, when
\* EditLoop returns or panics
RECURSIVE RunDefers(_, _)
RunDefers(ds, cur) ==
    IF ds = <<>> THEN cur
    ELSE RunDefers(SubSeq(ds, 1, Len(ds) - 1), ds[Len(ds)])

NoTree == [t |-> "none", v |-> ""]

NotPopulated ==
    [set |-> FALSE,
     doc |-> [summary |-> "", hasFields |-> FALSE, fields |-> EmptyMap]]

\* the maps a caller may hand in through output
CallerMaps == {EmptyMap, [k \in {"k0"} |-> "z"]}

InitEdit ==
    /\ pc = "start"
    /\ skipEditing \in BOOLEAN
    /\ tmpFile = 0
    /\ origFile = 0
    /\ \E ref \in {0, 1} : output = [summary |-> "s", fields |-> ref]
    /\ \E m \in CallerMaps :
          /\ output.fields = 0 => m = EmptyMap
          /\ heap = [r \in Refs |-> IF r = 1 THEN m ELSE EmptyMap]
    /\ dup = [summary |-> "", fields |-> 0]
    /\ fixed = NoTree
    /\ yamlTypes \in {YamlDefault, YamlOther}
    /\ yamlTypes0 = yamlTypes
    /\ defers = <<>>
    /\ attempts = 0
    /\ answer = NoAnswer
    /\ renders = 0
    /\ rendered = 0
    /\ prevFile = 0
    /\ submits = 0
    /\ submitFails = 0
    /\ populated = NotPopulated
    /\ snapshot = Deep(output, heap)

\* `continue` with the loop entered from the top again
ContinueTargetRender == "start"

\* `continue` (lines 295, 335, 344, 352, 360) goes to the head of the loop
\* at line 289, below tmpTemplate and the copy into dup
ContinueTarget == "top"

\* lines 300-302 with the panic missing
NoChangeNextFallsThrough(a) == "read"

\* lines 299-303: where "No changes detected, submit anyway?" leads
NoChangeNext(a) == IF ~confirm(a) THEN "exit1" ELSE "read"

\* lines 357-364 with the error of submit() dropped
SubmitNextIgnoresError(ok) == "done"

\* lines 357-364: an error of submit() leads to the confirmation, success
\* to break and return nil
SubmitNext(ok) == IF ok THEN "done" ELSE "confirmSubmit"

\* a declined confirmation handled like the errors of lines 308 and 321
DeclineReturnsError == "error"

\* lines 297, 337, 346, 354, 362: panic(Exit{Code: 1})
DeclineExit == "exit1"

\* line 290 with the test missing: editFile is called whatever the option
EditingSkippedNever(skip) == FALSE

\* line 290: !opts.SkipEditing.Value guards the call of editFile
EditingSkipped(skip) == skip

\* EditLoop ends: by return nil ("done"), by return err ("error") or by
\* panic(Exit{Code: 1}) ("exit1"); its deferred calls run
Leave(how) ==
    /\ pc' = how
    /\ yamlTypes' = RunDefers(defers, yamlTypes)
    /\ defers' = <<>>

\* `continue`, or panic(Exit{Code: 1}) when the confirmation is declined
Retry(a) ==
    /\ answer' = <<pc, a>>
    /\ IF confirm(a)
       THEN /\ attempts < MaxAttempts
            /\ attempts' = attempts + 1
            /\ pc' = ContinueTarget
            /\ UNCHANGED <<yamlTypes, defers>>
       ELSE /\ Leave(DeclineExit)
            /\ UNCHANGED attempts

\* lines 266-287: tmpTemplate writes the file, dup gets a copy of *output
RenderAndCopy(ok, d) ==
    /\ pc = "start"
    /\ renders' = renders + 1
    /\ IF ok
       THEN /\ tmpFile' = d
            /\ rendered' = d
            /\ dup' = CopierCopy(output)
            /\ pc' = "top"
       ELSE /\ pc' = "error"
            /\ UNCHANGED <<tmpFile, rendered, dup>>
    /\ UNCHANGED <<skipEditing, origFile, output, heap, fixed, yamlTypes,
                   defers, attempts, answer, prevFile, submits, snapshot,
                   yamlTypes0>>
    /\ UNCHANGED <<submitFails, populated>>
    /\ UNCHANGED notEdit

\* line 290 with SkipEditing set: on to line 306
SkipEdit ==
    /\ pc = "top"
    /\ EditingSkipped(skipEditing)
    /\ pc' = "read"
    /\ UNCHANGED <<skipEditing, tmpFile, origFile, output, dup, heap, fixed,
                   yamlTypes, defers, attempts, answer, renders, rendered,
                   prevFile, submits, snapshot, yamlTypes0>>
    /\ UNCHANGED <<submitFails, populated>>
    /\ UNCHANGED notEdit

\* copyFile(fileName, tmpFileNameOrig): the .orig file afterwards. A copy
\* that fails may have created the file already (left) or not.
copyFile(ok, left, from, old) ==
    IF ok \/ left THEN from ELSE old

\* editFile, lines 203-218: with SkipEditing set it returns (false, nil);
\* else copyFile makes the .orig backup, and when that fails editFile
\* returns its error at line 217, above the defer of line 220
EditBackup(ok, left) ==
    /\ pc = "top"
    /\ ~EditingSkipped(skipEditing)
    /\ IF skipEditing
       THEN /\ pc' = "confirmNoChange"
            /\ UNCHANGED <<origFile, prevFile>>
       ELSE /\ origFile' = copyFile(ok, left, tmpFile, origFile)
            /\ IF ok
               THEN /\ prevFile' = tmpFile
                    /\ pc' = "editor"
               ELSE /\ prevFile' = prevFile
                    /\ pc' = "confirmEditor"
    /\ UNCHANGED <<skipEditing, tmpFile, output, dup, heap, fixed, yamlTypes,
                   defers, attempts, answer, renders, rendered, submits,
                   snapshot, yamlTypes0>>
    /\ UNCHANGED <<submitFails, populated>>
    /\ UNCHANGED notEdit

\* editFile, lines 220-263: the editor runs on the file and may rewrite
\* it; the files are compared; the deferred os.Remove deletes the backup.
\* how: "ok", "exit" (cmd.Run failed), "io" (os.Open or Stat failed)
EditRun(how, d) ==
    /\ pc = "editor"
    /\ tmpFile' = d
    /\ origFile' = 0
    /\ pc' = IF how # "ok" THEN "confirmEditor"
             ELSE IF FilesChanged(Docs[origFile].bytes, Docs[d].bytes)
             THEN "read"
             ELSE "confirmNoChange"
    /\ UNCHANGED <<skipEditing, output, dup, heap, fixed, yamlTypes, defers,
                   attempts, answer, renders, rendered, prevFile, submits,
                   snapshot, yamlTypes0>>
    /\ UNCHANGED <<submitFails, populated>>
    /\ UNCHANGED notEdit

\* lines 292-298: "Editor reported an error, edit again?"
ConfirmEditor(a) ==
    /\ pc = "confirmEditor"
    /\ Retry(a)
    /\ UNCHANGED <<skipEditing, tmpFile, origFile, output, dup, heap, fixed,
                   renders, rendered, prevFile, submits, snapshot,
                   yamlTypes0>>
    /\ UNCHANGED <<submitFails, populated>>
    /\ UNCHANGED notEdit

\* lines 299-303: "No changes detected, submit anyway?"
ConfirmNoChange(a) ==
    /\ pc = "confirmNoChange"
    /\ answer' = <<pc, a>>
    /\ IF NoChangeNext(a) = "exit1"
       THEN Leave("exit1")
       ELSE /\ pc' = NoChangeNext(a)
            /\ UNCHANGED <<yamlTypes, defers>>
    /\ UNCHANGED <<skipEditing, tmpFile, origFile, output, dup, heap, fixed,
                   attempts, renders, rendered, prevFile, submits, snapshot,
                   yamlTypes0>>
    /\ UNCHANGED <<submitFails, populated>>
    /\ UNCHANGED notEdit

\* lines 306-309: ioutil.ReadFile
ReadFile(ok) ==
    /\ pc = "read"
    /\ IF ok
       THEN /\ pc' = "parse"
            /\ UNCHANGED <<yamlTypes, defers>>
       ELSE Leave("error")
    /\ UNCHANGED <<skipEditing, tmpFile, origFile, output, dup, heap, fixed,
                   attempts, answer, renders, rendered, prevFile, submits,
                   snapshot, yamlTypes0>>
    /\ UNCHANGED <<submitFails, populated>>
    /\ UNCHANGED notEdit

\* lines 311-347: the yaml settings are saved and overridden, *output is
\* restored from dup, the file is parsed, fixed up and encoded again.
\* A map that nothing refers to after the restore is dropped from heap.
Parse(marshalOk) ==
    /\ pc = "parse"
    /\ defers' = Append(defers, yamlTypes)
    /\ yamlTypes' = YamlForEditLoop
    /\ output' = CopierCopy(dup)
    /\ heap' = IF dup.fields = 2 THEN heap ELSE [heap EXCEPT ![2] = EmptyMap]
    /\ IF Docs[tmpFile].yaml = BadYAML
       THEN /\ pc' = "confirmSyntax"
            /\ fixed' = NoTree
       ELSE IF marshalOk
       THEN /\ pc' = "populate"
            /\ fixed' = Sanitize(Docs[tmpFile].yaml)
       ELSE /\ pc' = "confirmSyntax"
            /\ fixed' = NoTree
    /\ UNCHANGED <<skipEditing, tmpFile, origFile, dup, attempts, answer,
                   renders, rendered, prevFile, submits, snapshot,
                   yamlTypes0>>
    /\ populated' = NotPopulated
    /\ UNCHANGED submitFails
    /\ UNCHANGED notEdit

\* lines 349-355: yaml.Unmarshal(fixedYAML, output)
Populate ==
    /\ pc = "populate"
    /\ LET r == Unmarshal(output, heap, fixed)
       IN  /\ output' = r.doc
           /\ heap' = r.heap
           /\ pc' = IF r.err THEN "confirmSyntax" ELSE "submit"
           /\ populated' = IF r.err THEN NotPopulated
                           ELSE [set |-> TRUE, doc |-> Deep(r.doc, r.heap)]
    /\ UNCHANGED <<skipEditing, tmpFile, origFile, dup, fixed, yamlTypes,
                   defers, attempts, answer, renders, rendered, prevFile,
                   submits, snapshot, yamlTypes0>>
    /\ UNCHANGED submitFails
    /\ UNCHANGED notEdit

\* lines 332-338, 341-347, 350-355: "Invalid YAML syntax, edit again?"
ConfirmSyntax(a) ==
    /\ pc = "confirmSyntax"
    /\ Retry(a)
    /\ UNCHANGED <<skipEditing, tmpFile, origFile, output, dup, heap, fixed,
                   renders, rendered, prevFile, submits, snapshot,
                   yamlTypes0>>
    /\ UNCHANGED <<submitFails, populated>>
    /\ UNCHANGED notEdit

\* lines 357 and 364-366: submit(); on success break and return nil
Submit(ok) ==
    /\ pc = "submit"
    /\ submits' = submits + 1
    /\ submitFails' = IF ok THEN submitFails ELSE submitFails + 1
    /\ IF SubmitNext(ok) = "done"
       THEN Leave("done")
       ELSE /\ pc' = SubmitNext(ok)
            /\ UNCHANGED <<yamlTypes, defers>>
    /\ UNCHANGED populated
    /\ UNCHANGED <<skipEditing, tmpFile, origFile, output, dup, heap, fixed,
                   attempts, answer, renders, rendered, prevFile, snapshot,
                   yamlTypes0>>
    /\ UNCHANGED notEdit

\* lines 358-362: "Jira reported an error, edit again?"
ConfirmSubmit(a) ==
    /\ pc = "confirmSubmit"
    /\ Retry(a)
    /\ UNCHANGED <<skipEditing, tmpFile, origFile, output, dup, heap, fixed,
                   renders, rendered, prevFile, submits, snapshot,
                   yamlTypes0>>
    /\ UNCHANGED <<submitFails, populated>>
    /\ UNCHANGED notEdit

NextEdit ==
    \/ \E ok \in BOOLEAN, d \in DocIds : RenderAndCopy(ok, d)
    \/ SkipEdit
    \/ \E ok \in BOOLEAN, left \in BOOLEAN : EditBackup(ok, left)
    \/ \E how \in {"ok", "exit", "io"}, d \in DocIds : EditRun(how, d)
    \/ \E a \in Answers : ConfirmEditor(a)
    \/ \E a \in Answers : ConfirmNoChange(a)
    \/ \E ok \in BOOLEAN : ReadFile(ok)
    \/ \E marshalOk \in BOOLEAN : Parse(marshalOk)
    \/ Populate
    \/ \E a \in Answers : ConfirmSyntax(a)
    \/ \E ok \in BOOLEAN : Submit(ok)
    \/ \E a \in Answers : ConfirmSubmit(a)

IdleEdit ==
    /\ pc = "off"
    /\ skipEditing = FALSE
    /\ tmpFile = 0
    /\ origFile = 0
    /\ output = [summary |-> "", fields |-> 0]
    /\ dup = [summary |-> "", fields |-> 0]
    /\ heap = [r \in Refs |-> EmptyMap]
    /\ fixed = NoTree
    /\ yamlTypes = YamlDefault
    /\ yamlTypes0 = YamlDefault
    /\ defers = <<>>
    /\ attempts = 0
    /\ answer = NoAnswer
    /\ renders = 0
    /\ rendered = 0
    /\ prevFile = 0
    /\ submits = 0
    /\ submitFails = 0
    /\ populated = NotPopulated
    /\ snapshot = [summary |-> "", hasFields |-> FALSE, fields |-> EmptyMap]

(***************************************************************************)
(* Properties of the comparison of editFile, checked under SpecDiff.       *)
(***************************************************************************)
Differing(old, new) == {i \in 1..Len(old) : old[i] # new[i]}

\* C9: for a backup and an edited file of equal size, changes is true if
\* and only if at least one byte differs, wherever it is and however many
\* chunks the files have; for files of unequal size changes is true.
DiffDeterminism ==
    dDone =>
        /\ Len(dOld) = Len(dNew) =>
               (dChanged <=> Differing(dOld, dNew) # {})
        /\ Len(dOld) # Len(dNew) => dChanged

\* one changed byte, in the last chunk of a file of several chunks
DiffWitness ==
    /\ dDone
    /\ dChanged
    /\ Len(dOld) = Len(dNew)
    /\ Len(dOld) > ChunkSize
    /\ Differing(dOld, dNew) = {Len(dOld)}

(***************************************************************************)
(* Properties of EditLoop, checked under Spec.                             *)
(***************************************************************************)
InLoop == pc \in {"top", "editor", "confirmEditor", "confirmNoChange",
                  "read", "parse", "populate", "confirmSyntax", "submit",
                  "confirmSubmit"}

\* C5: whenever the sanitized bytes are about to be decoded into *output,
\* *output equals, field for field and map entry for map entry, the value
\* it had when EditLoop was called.
RestoreInvariant ==
    pc = "populate" => Deep(output, heap) = snapshot

\* C6: from the copy at loop entry on, everything reachable from dup keeps
\* the value *output had when EditLoop was called.
SnapshotImmutable ==
    (InLoop \/ pc \in {"done", "exit1"}) => Deep(dup, heap) = snapshot

\* C7: submit is called only after the file was parsed, fixed up, encoded
\* and decoded into the restored *output without error, and *output is then
\* the value EditLoop was called with, overlaid with that one tree.
SubmitSeesSnapshotPlusTree ==
    pc = "submit" =>
        /\ Docs[tmpFile].yaml # BadYAML
        /\ fixed = yamlFixup(Docs[tmpFile].yaml)
        /\ ~UnmarshalInto(snapshot, fixed).err
        /\ Deep(output, heap) = UnmarshalInto(snapshot, fixed).doc

\* C8: "No changes detected, submit anyway?" is asked only when editing is
\* not skipped and the editor left the file as it was; answered "no",
\* EditLoop ends there by panic(Exit{Code: 1}) and submit is not called,
\* then or later; answered "yes", the same iteration goes on to read and
\* parse the file.
NoChangeDeclineAborts ==
    /\ [](pc = "confirmNoChange" => (~skipEditing /\ tmpFile = prevFile))
    /\ [][pc = "confirmNoChange" =>
            IF answer'[2] = "no"
            THEN pc' = "exit1" /\ submits' = submits
            ELSE answer'[2] = "yes" =>
                    (pc' = "read" /\ attempts' = attempts
                     /\ tmpFile' = tmpFile)]_vars
    /\ [][pc # "exit1"]_vars
    /\ []((pc = "exit1" /\ answer = <<"confirmNoChange", "no">>
           /\ attempts = 0) => submits = 0)

NoChangeDeclineWitness ==
    /\ pc = "exit1"
    /\ answer = <<"confirmNoChange", "no">>
    /\ tmpFile = prevFile
    /\ submits = 0

\* C10: tmpTemplate runs once, before the loop; only tmpTemplate and the
\* editor write the file; a retry goes back to the head of the loop with
\* the file as the editor last left it.
RenderedOnce ==
    /\ [](renders <= 1)
    /\ []((InLoop \/ pc \in {"done", "exit1"}) =>
             (renders = 1 /\ tmpFile # 0))
    /\ [][tmpFile' # tmpFile => pc \in {"start", "editor"}]_vars
    /\ [][(pc \in {"confirmEditor", "confirmSyntax", "confirmSubmit"}
           /\ confirm(answer'[2])) =>
             (pc' = "top" /\ tmpFile' = tmpFile /\ renders' = renders)]_vars

\* a retry after a YAML syntax error: the editor is started on the file as
\* last edited, which is not what tmpTemplate wrote
RetryOnEditedFileWitness ==
    /\ pc = "editor"
    /\ answer = <<"confirmSyntax", "yes">>
    /\ attempts >= 1
    /\ tmpFile # rendered
    /\ Docs[tmpFile].yaml = BadYAML
    /\ origFile = tmpFile
    /\ renders = 1

\* C11: each call of submit() that fails leads to the retry confirmation
\* and each that succeeds ends EditLoop with return nil; so when EditLoop
\* has returned nil after n failed calls, submit() was called n+1 times,
\* and *output is what the decoding of the last iteration made of it.
SubmitUntilAccepted ==
    /\ [][pc = "submit" =>
            /\ submits' = submits + 1
            /\ submitFails' = submitFails => pc' = "done"
            /\ submitFails' # submitFails => pc' = "confirmSubmit"]_vars
    /\ [][pc' = "done" => pc = "submit"]_vars
    /\ [](pc = "done" =>
            /\ submits = submitFails + 1
            /\ populated.set
            /\ Deep(output, heap) = populated.doc)
    /\ [](pc \in {"exit1", "error"} => submits = submitFails)

\* submit() failed twice, the user retried twice, the third call succeeded
SubmitThirdTimeWitness ==
    /\ pc = "done"
    /\ submitFails = 2
    /\ submits = 3
    /\ answer = <<"confirmSubmit", "yes">>

\* C12 as stated: EditLoop aborts only on an explicit "no"; an empty answer
\* and a prompt that fails or is interrupted count as "yes".
AbortOnlyOnExplicitNo ==
    pc = "exit1" => answer[2] = "no"

\* C13: a declined confirmation ends EditLoop by panic(Exit{Code: 1}),
\* never by return err or return nil; return err comes only from
\* tmpTemplate and ioutil.ReadFile, return nil only from a submit() that
\* succeeded.
DeclineExitsWithCode1 ==
    /\ [][(pc \in {"confirmEditor", "confirmNoChange", "confirmSyntax",
                   "confirmSubmit"} /\ ~confirm(answer'[2])) =>
             pc' = "exit1"]_vars
    /\ [][pc' = "exit1" =>
             (pc \in {"confirmEditor", "confirmNoChange", "confirmSyntax",
                      "confirmSubmit"} /\ ~confirm(answer'[2]))]_vars
    /\ [][pc' = "error" => pc \in {"start", "read"}]_vars
    /\ [][pc' = "done" => (pc = "submit" /\ submitFails' = submitFails)]_vars

\* the user declined after submit() failed
DeclineAfterSubmitWitness ==
    /\ pc = "exit1"
    /\ answer = <<"confirmSubmit", "no">>
    /\ submitFails = 1

\* C14: the .orig backup exists only while the editor runs: once editFile
\* has returned, by whatever path, and so when EditLoop has ended, there is
\* no backup file.
NoBackupRemains ==
    origFile # 0 => pc = "editor"

\* C18: with SkipEditing set no editor is started and no backup made in any
\* iteration, neither the editor nor the no-changes confirmation is asked,
\* and what is parsed, fixed up and submitted is the file tmpTemplate wrote.
SkipEditingSkipsEditAndDiff ==
    skipEditing =>
        /\ pc \notin {"editor", "confirmEditor", "confirmNoChange"}
        /\ answer[1] \notin {"confirmEditor", "confirmNoChange"}
        /\ origFile = 0
        /\ prevFile = 0
        /\ tmpFile = rendered
        /\ pc \in {"populate", "submit", "done"} =>
               fixed = Sanitize(Docs[rendered].yaml)

\* SkipEditing set, a retry after submit() failed, then success
SkipEditingRetryWitness ==
    /\ skipEditing
    /\ pc = "done"
    /\ attempts >= 1
    /\ submits = 2
    /\ tmpFile = rendered

\* C20: however EditLoop ends once the loop has started (return nil,
\* return err, panic), and after any number of iterations,
\* yaml.DefaultMapType and yaml.IfaceType have the values they had when
\* EditLoop was called.
YamlSettingsRestored ==
    /\ pc \in {"done", "exit1", "error"} =>
           (yamlTypes = yamlTypes0 /\ defers = <<>>)
    /\ pc \in {"start", "top", "editor", "confirmEditor", "confirmNoChange",
               "read"} /\ attempts = 0 => yamlTypes = yamlTypes0

\* two iterations registered their deferred calls before EditLoop ended
YamlRestoredTwiceWitness ==
    /\ pc \in {"done", "exit1"}
    /\ answer[1] = "confirmSubmit"
    /\ submits = 2
    /\ yamlTypes0 = YamlOther
    /\ yamlTypes = YamlOther

(***************************************************************************)
(* Properties of the fix-up, checked under SpecFix.                        *)
(***************************************************************************)
\* a value that must not stay in a mapping: an empty sequence, an empty
\* mapping or a string of blanks only
EmptyValue(n) ==
    \/ n.t = "seq" /\ Len(n.v) = 0
    \/ n.t = "map" /\ DOMAIN n.v = {}
    \/ n.t = "str" /\ n.v \in {"", " "}

RECURSIVE NoEmptyEntries(_)
NoEmptyEntries(n) ==
    CASE n.t = "map" ->
           \A k \in DOMAIN n.v : ~EmptyValue(n.v[k]) /\ NoEmptyEntries(n.v[k])
      [] n.t = "seq" ->
           \A i \in DOMAIN n.v : NoEmptyEntries(n.v[i])
      [] OTHER -> TRUE

\* C15: after the fix-up no mapping at any depth has an entry whose value
\* is an empty sequence, an empty mapping or a blank string, entries whose
\* mapping was emptied by the fix-up of its own entries included.
SanitizeComplete ==
    fDone => NoEmptyEntries(fOnce)

\* a mapping three deep whose only leaf is blank: every level goes
SanitizeCascadeWitness ==
    /\ fDone
    /\ fRaw = [t |-> "map", v |-> [k \in {"a"} |->
                 [t |-> "map", v |-> [j \in {"b"} |->
                    [t |-> "map", v |-> [i \in {"a"} |-> Str(" ")]]]]]]
    /\ fOnce = Map(EmptyMap)

\* C16: fixing up a fixed-up tree changes nothing.
SanitizeIdempotent ==
    fDone => fTwice = fOnce

\* a tree that the fix-up changes, at two levels
SanitizeIdempotentWitness ==
    /\ fDone
    /\ fTwice = fOnce
    /\ fOnce # fRaw
    /\ fRaw.t = "map"
    /\ \E k \in DOMAIN fRaw.v :
          /\ fRaw.v[k].t = "map"
          /\ DOMAIN fRaw.v[k].v # {}
          /\ k \notin DOMAIN fOnce.v

(***************************************************************************)
(* The fix-up of the parsed file (cli.go 331-340), on its own.             *)
(***************************************************************************)
FixKeys == {"a", "b"}

Leaves == {Str(""), Str(" "), Str("x"), List(<<>>), Map(EmptyMap)}

\* the mappings with keys among FixKeys and values among vals
MapsOver(vals) ==
    {[t |-> "map", v |-> f] :
        f \in UNION {[ks -> vals] : ks \in (SUBSET FixKeys) \ {{}}}}

ListsOver(vals) == {[t |-> "seq", v |-> <<x>>] : x \in vals}

Level1 == Leaves \cup MapsOver(Leaves) \cup ListsOver(Leaves)

Level2 == Level1 \cup MapsOver(Level1) \cup ListsOver(Level1)

\* what yaml.Unmarshal(data, &raw) can yield: trees nested three deep
RawTrees ==
    Level2 \cup {[t |-> "map", v |-> [k \in {"a"} |-> x]] : x \in Level2}

InitFix ==
    /\ fRaw \in RawTrees
    /\ fDone = FALSE
    /\ fOnce = NoTree
    /\ fTwice = NoTree

\* line 339, and line 339 once more on its own result
FixupRun ==
    /\ ~fDone
    /\ fDone' = TRUE
    /\ fOnce' = Sanitize(fRaw)
    /\ fTwice' = Sanitize(Sanitize(fRaw))
    /\ UNCHANGED fRaw
    /\ UNCHANGED notFix

NextFix == FixupRun

IdleFix ==
    /\ fRaw = NoTree
    /\ fDone = TRUE
    /\ fOnce = NoTree
    /\ fTwice = NoTree

IdleAuth ==
    /\ quiet = FALSE
    /\ quiet0 = FALSE
    /\ apc = "off"
    /\ stack = <<>>
    /\ reqNo = 0
    /\ ret = NoRet
    /\ result = NoRet
    /\ firstUser = Nil
    /\ logins = 0
    /\ replays = 0
    /\ unauth = 0

IdleDiff ==
    /\ dOld = <<>>
    /\ dNew = <<>>
    /\ dDone = TRUE
    /\ dChanged = FALSE

AuthInit == InitAuth /\ IdleDiff /\ IdleEdit /\ IdleFix

SpecAuth == AuthInit /\ [][NextAuth]_vars

DiffInit == InitDiff /\ IdleAuth /\ IdleEdit /\ IdleFix

SpecDiff == DiffInit /\ [][NextDiff]_vars

Init == InitEdit /\ IdleAuth /\ IdleDiff /\ IdleFix

Spec == Init /\ [][NextEdit]_vars

FixInit == InitFix /\ IdleAuth /\ IdleDiff /\ IdleEdit

SpecFix == FixInit /\ [][NextFix]_vars

====
